---------------------------- MODULE Spec2Model ----------------------------
(***************************************************************************)
(* Model of Landscape.Renderer (src/js/renderer.js, lines 1-550): the      *)
(* WebGL set-up with its rollback, the requestAnimationFrame loop, the     *)
(* context lost/restored listeners, the resize step and the grid mesh.     *)
(*                                                                         *)
(* JavaScript runs every handler to completion, so each handler is one     *)
(* action.  What the browser decides (whether a context, an extension or   *)
(* a script tag exists, whether a shader compiles, the size of the         *)
(* canvas) is an input of the action, drawn from a small set.              *)
(***************************************************************************)
EXTENDS Integers, Sequences, FiniteSets, TLC

(***************************************************************************)
(* Bounds of the model.                                                    *)
(***************************************************************************)
\* requestAnimationFrame hands out the handles 1, 2, ...; the model stops
\* scheduling after this many.
MaxHandle == 4
\* The largest clientWidth / clientHeight (CSS pixels) the browser reports.
MaxClientSize == 3
\* The grid dimensions 1 .. MaxDimension are generated.
MaxDimension == 24

(***************************************************************************)
(* Configuration data of the program.                                      *)
(***************************************************************************)
SHADER_IDS_ == <<"wireframeVertex", "wireframeFragment">>

PROGRAM_SHADERS_ ==
  << [id |-> "wireframe", vertex |-> "wireframeVertex",
      fragment |-> "wireframeFragment"],
     [id |-> "mountains", vertex |-> "wireframeVertex",
      fragment |-> "wireframeFragment"] >>

GRID_DIMENSION_ == 20

\* The drawing buffer of a canvas without width/height attributes.
CanvasDefaultWidth == 300
CanvasDefaultHeight == 150

(***************************************************************************)
(* Small helpers.                                                          *)
(***************************************************************************)
Range(s) == { s[k] : k \in 1..Len(s) }

ProgramNames == { PROGRAM_SHADERS_[k].id : k \in 1..Len(PROGRAM_SHADERS_) }

\* A JavaScript object used as a map keeps its keys in insertion order: a
\* sequence of [key, val] records.  Assigning to an existing key keeps its
\* place and replaces its value.
Keys(map) == { map[k].key : k \in 1..Len(map) }

Get(map, key) ==
  IF key \in Keys(map)
  THEN (CHOOSE e \in Range(map) : e.key = key).val
  ELSE 0

Put(map, key, val) ==
  IF key \in Keys(map)
  THEN [k \in 1..Len(map) |->
          IF map[k].key = key THEN [key |-> key, val |-> val] ELSE map[k]]
  ELSE Append(map, [key |-> key, val |-> val])

(***************************************************************************)
(* What the browser answers during one call of setUpWebGL_.                *)
(*   ctx      getContext returns a context                                 *)
(*   ext      getExtension returns the extension                           *)
(*   scripts  the type attribute of each script tag, "missing" when         *)
(*            getElementById finds none                                    *)
(*   compile  the COMPILE_STATUS of the shader made from each script       *)
(*   link     the LINK_STATUS of the k-th program created                  *)
(*   lost     gl.isContextLost()                                           *)
(***************************************************************************)
ScriptTypes == {"x-shader/x-vertex", "x-shader/x-fragment", "text/javascript",
                "missing"}

Envs ==
  [ctx : BOOLEAN, ext : BOOLEAN,
   scripts : [Range(SHADER_IDS_) -> ScriptTypes],
   compile : [Range(SHADER_IDS_) -> BOOLEAN],
   link : [1..Len(PROGRAM_SHADERS_) -> BOOLEAN],
   lost : BOOLEAN]

\* setUpWebGL_ asks the browser nothing when `this` has no canvas_: one
\* environment stands for all.
EnvsOf(self) ==
  IF self.canvas_ THEN Envs
  ELSE { [ctx |-> TRUE, ext |-> TRUE,
          scripts |-> [id \in Range(SHADER_IDS_) |-> "missing"],
          compile |-> [id \in Range(SHADER_IDS_) |-> TRUE],
          link |-> [k \in 1..Len(PROGRAM_SHADERS_) |-> TRUE],
          lost |-> FALSE] }

\* The texts the driver reports; they name neither script nor program.
getShaderInfoLog == "ERROR: 0:1: syntax error"
getProgramInfoLog == "varyings mismatch"

\* String(shader) for a WebGLShader object, as the + operator computes it.
ShaderToString == "[object WebGLShader]"

\* A call on the context: [op, a, b]; a and b are object numbers (0: none).
\* For createShader b is the shader type; for compileShader and linkProgram
\* b is the status the object has afterwards (1: COMPILE_STATUS or
\* LINK_STATUS is true, 0: it is false or null).
Call(op, a, b) == [op |-> op, a |-> a, b |-> b]

\* Shaders and programs are numbered in the order they are created.
CountOp(log, op) == Cardinality({ k \in 1..Len(log) : log[k].op = op })

\* A context that is lost answers null to getShaderParameter and
\* getProgramParameter.
getShaderParameter(env, scriptId) == ~env.lost /\ env.compile[scriptId]
getProgramParameter(env, n) == ~env.lost /\ env.link[n]

Status(ok) == IF ok THEN 1 ELSE 0


VERTEX_SHADER == 35633
FRAGMENT_SHADER == 35632

(***************************************************************************)
(* The routines of the set-up.  Each returns a record: threw (an Error was *)
(* thrown), message (the Error's message, the pieces the + operator joins, *)
(* in order), its value, and log (the calls made on the context so far).   *)
(***************************************************************************)
\* enableExtension_ that goes on without the extension.
enableExtension_Silent(env, extension, log) ==
  [threw |-> FALSE, message |-> <<>>,
   log |-> Append(log, Call("getExtension", 0, 0))]

enableExtension_(env, extension, log) ==
  LET log1 == Append(log, Call("getExtension", 0, 0))
  IN  IF ~env.ext
      THEN [threw |-> TRUE,
            message |-> <<"Could not load extension: ", extension>>,
            log |-> log1]
      ELSE [threw |-> FALSE, message |-> <<>>, log |-> log1]

\* The look-up document.getElementById(scriptId), recorded with the calls
\* on the context: a is the position of scriptId in SHADER_IDS_.
getElementById(scriptId) ==
  Call("getElementById",
       CHOOSE k \in 1..Len(SHADER_IDS_) : SHADER_IDS_[k] = scriptId, 0)

\* createShaderFromScript_ that takes every other tag for a fragment shader.
createShaderFromScript_AnyTag(env, scriptId, log) ==
  IF env.scripts[scriptId] = "missing"
  THEN [threw |-> TRUE,
        message |-> <<"Could not find script with id '", scriptId,
                      "' containing shader code">>,
        shader |-> 0, log |-> Append(log, getElementById(scriptId))]
  ELSE IF ~getShaderParameter(env, scriptId) /\ ~env.lost
  THEN [threw |-> TRUE,
        message |-> <<"Error compiling shader '", ShaderToString, "': ",
                      getShaderInfoLog>>,
        shader |-> 0,
        log |-> log \o << getElementById(scriptId),
                          Call("createShader",
                               CountOp(log, "createShader") + 1,
                               IF env.scripts[scriptId] = "x-shader/x-vertex"
                               THEN VERTEX_SHADER ELSE FRAGMENT_SHADER),
                          Call("shaderSource",
                               CountOp(log, "createShader") + 1, 0),
                          Call("compileShader",
                               CountOp(log, "createShader") + 1, 0),
                          Call("deleteShader",
                               CountOp(log, "createShader") + 1, 0) >>]
  ELSE [threw |-> FALSE, message |-> <<>>,
        shader |-> CountOp(log, "createShader") + 1,
        log |-> log \o << getElementById(scriptId),
                          Call("createShader",
                               CountOp(log, "createShader") + 1,
                               IF env.scripts[scriptId] = "x-shader/x-vertex"
                               THEN VERTEX_SHADER ELSE FRAGMENT_SHADER),
                          Call("shaderSource",
                               CountOp(log, "createShader") + 1, 0),
                          Call("compileShader",
                               CountOp(log, "createShader") + 1,
                               Status(getShaderParameter(env, scriptId))) >>]

createShaderFromScript_(env, scriptId, log) ==
  LET type == env.scripts[scriptId]
  IN  IF type = "missing"
      THEN [threw |-> TRUE,
            message |-> <<"Could not find script with id '", scriptId,
                          "' containing shader code">>,
            shader |-> 0, log |-> Append(log, getElementById(scriptId))]
      ELSE IF type \notin {"x-shader/x-vertex", "x-shader/x-fragment"}
      THEN [threw |-> TRUE,
            message |-> <<"The shader script with if '", scriptId,
                          "' does not contain a valid type for the shader.">>,
            shader |-> 0, log |-> Append(log, getElementById(scriptId))]
      ELSE
        LET shaderType == IF type = "x-shader/x-vertex"
                          THEN VERTEX_SHADER ELSE FRAGMENT_SHADER
            shader == CountOp(log, "createShader") + 1
            log1 == log \o << getElementById(scriptId),
                              Call("createShader", shader, shaderType),
                              Call("shaderSource", shader, 0),
                              Call("compileShader", shader,
                                   Status(getShaderParameter(env, scriptId))) >>
        IN  IF ~getShaderParameter(env, scriptId) /\ ~env.lost
            THEN [threw |-> TRUE,
                  message |-> <<"Error compiling shader '", ShaderToString,
                                "': ", getShaderInfoLog>>,
                  shader |-> 0,
                  log |-> Append(log1, Call("deleteShader", shader, 0))]
            ELSE [threw |-> FALSE, message |-> <<>>, shader |-> shader,
                  log |-> log1]

\* createProgram_ without the check of LINK_STATUS.
createProgram_NoLinkCheck(env, vertexShader, fragmentSahder, log) ==
  [threw |-> FALSE, message |-> <<>>,
   program |-> CountOp(log, "createProgram") + 1,
   log |-> log \o << Call("createProgram",
                          CountOp(log, "createProgram") + 1, 0),
                     Call("attachShader",
                          CountOp(log, "createProgram") + 1, vertexShader),
                     Call("attachShader",
                          CountOp(log, "createProgram") + 1, fragmentSahder),
                     Call("linkProgram", CountOp(log, "createProgram") + 1,
                          Status(getProgramParameter(env,
                                   CountOp(log, "createProgram") + 1))) >>]

createProgram_(env, vertexShader, fragmentSahder, log) ==
  LET program == CountOp(log, "createProgram") + 1
      log1 == log \o << Call("createProgram", program, 0),
                        Call("attachShader", program, vertexShader),
                        Call("attachShader", program, fragmentSahder),
                        Call("linkProgram", program,
                             Status(getProgramParameter(env, program))) >>
  IN  IF ~getProgramParameter(env, program) /\ ~env.lost
      THEN [threw |-> TRUE,
            message |-> <<"Error linking program: ", getProgramInfoLog>>,
            program |-> 0,
            log |-> Append(log1, Call("deleteProgram", program, 0))]
      ELSE [threw |-> FALSE, message |-> <<>>, program |-> program,
            log |-> log1]

\* The state of one run of the try block: threw and message (an Error is
\* on its way to the catch block), the map shaders (empty while it is still
\* undefined: nothing to iterate), this.programs_, and the calls so far.
TryState(programs) ==
  [threw |-> FALSE, message |-> <<>>, shaders |-> <<>>,
   programs |-> programs, log |-> <<>>]

Extended(t, r) ==
  [t EXCEPT !.threw = r.threw, !.message = r.message, !.log = r.log]

\* A loop that stores what createShaderFromScript_ worked on even when it
\* threw.
ShaderStored_Always(t, id, r) == [t EXCEPT !.threw = r.threw, !.message = r.message, !.log = r.log, !.shaders = Put(@, id, CountOp(r.log, "createShader"))]

\* shaders[id] = shader, unless createShaderFromScript_ threw (result r).
ShaderStored(t, id, r) ==
  [t EXCEPT !.threw = r.threw, !.message = r.message, !.log = r.log,
            !.shaders = IF r.threw THEN @ ELSE Put(@, id, r.shader)]

\* this.programs_[id] = program, unless createProgram_ threw (result r).
ProgramStored(t, id, r) ==
  [t EXCEPT !.threw = r.threw, !.message = r.message, !.log = r.log,
            !.programs = IF r.threw THEN @ ELSE Put(@, id, r.program)]

\* The first loop of setUpWebGL_, from index i on.
RECURSIVE compileShaders(_, _, _)

\* One compilation of the script id, unless an Error is already on its way.
CompiledOnce(env, id, t) ==
  IF t.threw THEN t
  ELSE ShaderStored(t, id, createShaderFromScript_(env, id, t.log))

\* A loop that compiles every script once for each of the programs.
compileShaders_PerProgram(env, i, t) ==
  IF t.threw \/ i > Len(SHADER_IDS_) THEN t
  ELSE compileShaders(env, i + 1,
         CompiledOnce(env, SHADER_IDS_[i],
                      CompiledOnce(env, SHADER_IDS_[i], t)))

compileShaders(env, i, t) ==
  IF t.threw \/ i > Len(SHADER_IDS_) THEN t
  ELSE compileShaders(env, i + 1,
         ShaderStored(t, SHADER_IDS_[i],
                      createShaderFromScript_(env, SHADER_IDS_[i], t.log)))

\* The second loop of setUpWebGL_, from index i on.
RECURSIVE linkPrograms(_, _, _)
linkPrograms(env, i, t) ==
  IF t.threw \/ i > Len(PROGRAM_SHADERS_) THEN t
  ELSE linkPrograms(env, i + 1,
         ProgramStored(t, PROGRAM_SHADERS_[i].id,
                       createProgram_(env,
                                      Get(t.shaders, PROGRAM_SHADERS_[i].vertex),
                                      Get(t.shaders, PROGRAM_SHADERS_[i].fragment),
                                      t.log)))

\* The body of the try block: the extension, the shaders, the programs.
setUpWebGL_try(env, programs) ==
  linkPrograms(env, 1,
    compileShaders(env, 1,
      Extended(TryState(programs),
               enableExtension_(env, "OES_standard_derivatives", <<>>))))

\* The calls of the catch block: it deletes what the two maps hold, in
\* their key order.
\* A catch block that deletes the shaders and forgets the programs.
setUpWebGL_catch_ShadersOnly(t) ==
  [k \in 1..Len(t.shaders) |-> Call("deleteShader", t.shaders[k].val, 0)]

setUpWebGL_catch(t) ==
  [k \in 1..Len(t.shaders) |-> Call("deleteShader", t.shaders[k].val, 0)]
    \o [k \in 1..Len(t.programs) |->
          Call("deleteProgram", t.programs[k].val, 0)]

\* The end of setUpWebGL_, the try block having ended in state t: the catch
\* block and the throw of new Error(e.message), or the return of gl.
setUpWebGL_end(t) ==
  IF t.threw
  THEN [threw |-> TRUE, error |-> "Error", message |-> t.message,
        gl |-> FALSE, programs_ |-> t.programs,
        log |-> t.log \o setUpWebGL_catch(t)]
  ELSE [threw |-> FALSE, error |-> "", message |-> <<>>,
        gl |-> TRUE, programs_ |-> t.programs, log |-> t.log]

\* setUpWebGL_ that goes on with whatever getContext returned.
setUpWebGL_NoContextCheck(self, env) ==
  IF ~self.canvas_
  THEN [threw |-> TRUE, error |-> "TypeError",
        message |-> <<"Cannot read property 'getContext' of undefined">>,
        gl |-> FALSE, programs_ |-> self.programs_, log |-> <<>>]
  ELSE setUpWebGL_end(setUpWebGL_try(env, self.programs_))

\* setUpWebGL_ with `this` = self, a record [canvas_, programs_]; canvas_ is
\* FALSE when self has no such property.  error is the class of the Error.
setUpWebGL_(self, env) ==
  IF ~self.canvas_
  THEN [threw |-> TRUE, error |-> "TypeError",
        message |-> <<"Cannot read property 'getContext' of undefined">>,
        gl |-> FALSE, programs_ |-> self.programs_, log |-> <<>>]
  ELSE IF ~env.ctx
  THEN [threw |-> TRUE, error |-> "Error",
        message |-> <<"Could not get a WebGL context.">>,
        gl |-> FALSE, programs_ |-> self.programs_, log |-> <<>>]
  ELSE setUpWebGL_end(setUpWebGL_try(env, self.programs_))

(***************************************************************************)
(* The objects of the context after a sequence of calls.  deleteShader on  *)
(* a shader attached to a program only flags it; it goes when the last     *)
(* program it is attached to goes.                                         *)
(***************************************************************************)
EmptyStore == [shaders |-> {}, flagged |-> {}, programs |-> {},
               attached |-> {}, linked |-> {}]

GlApply(store, call) ==
  CASE call.op = "createShader" ->
         [store EXCEPT !.shaders = @ \cup {call.a}]
    [] call.op = "createProgram" ->
         [store EXCEPT !.programs = @ \cup {call.a}]
    [] call.op = "attachShader" ->
         [store EXCEPT !.attached = @ \cup {<<call.a, call.b>>}]
    [] call.op = "linkProgram" ->
         [store EXCEPT !.linked = IF call.b = 1 THEN @ \cup {call.a}
                                  ELSE @ \ {call.a}]
    [] call.op = "deleteShader" ->
         IF \E p \in store.programs : <<p, call.a>> \in store.attached
         THEN [store EXCEPT !.flagged = @ \cup {call.a}]
         ELSE [store EXCEPT !.shaders = @ \ {call.a},
                            !.flagged = @ \ {call.a}]
    [] call.op = "deleteProgram" ->
         LET programs == store.programs \ {call.a}
             attached == { pr \in store.attached : pr[1] # call.a }
             freed == { s \in store.flagged :
                          ~\E p \in programs : <<p, s>> \in attached }
         IN  [shaders |-> store.shaders \ freed,
              flagged |-> store.flagged \ freed,
              programs |-> programs, attached |-> attached,
              linked |-> store.linked \ {call.a}]
    [] OTHER -> store

RECURSIVE GlRun(_, _)
GlRun(store, log) ==
  IF log = <<>> THEN store ELSE GlRun(GlApply(store, Head(log)), Tail(log))

(***************************************************************************)
(* The grid mesh.  Both generators fill a typed array by array[idx++] = v, *)
(* idx starting at 0: the n-th write of the loops goes to slot n - 1.  A   *)
(* typed array has a fixed length, starts zeroed and ignores a write past  *)
(* its end.  Coordinates are kept doubled (the entry 2x stands for the     *)
(* float x), since dimension / 2 is a half-integer for an odd dimension.   *)
(***************************************************************************)
\* The array of `size` slots after the writes array[idx++] = values[n].
TypedArrayFill(size, values) ==
  IF Len(values) >= size THEN SubSeq(values, 1, size)
  ELSE values \o [n \in 1..(size - Len(values)) |-> 0]

\* The loop values if half were the integer part of dimension / 2.
HalfSteps_Truncated(dimension) ==
  [k \in 1..(2 * (dimension \div 2) + 1) |->
     2 * (k - 1) - 2 * (dimension \div 2)]

\* The doubled values a loop variable takes in
\*   for (v = -half; v <= half; v++)   with half = dimension / 2.
HalfSteps(dimension) ==
  [k \in 1..(dimension + 1) |-> 2 * (k - 1) - dimension]

\* A generator that writes the pair i, j.
generateGridWrites_DepthFirst(dimension) ==
  [n \in 1..(2 * (dimension + 1) * (dimension + 1)) |->
     IF n % 2 = 1
     THEN HalfSteps(dimension)[(((n - 1) \div 2) \div (dimension + 1)) + 1]
     ELSE HalfSteps(dimension)[(((n - 1) \div 2) % (dimension + 1)) + 1]]

\* The values generateGrid_ writes, in order: for each i, for each j, the
\* pair j, i.
generateGridWrites(dimension) ==
  LET is == HalfSteps(dimension)
      js == HalfSteps(dimension)
  IN  [n \in 1..(2 * Len(is) * Len(js)) |->
         LET iteration == (n - 1) \div 2
         IN  IF n % 2 = 1 THEN js[(iteration % Len(js)) + 1]
             ELSE is[(iteration \div Len(js)) + 1]]

generateGridOf(dimension) ==
  LET size == 2 * (dimension + 1) * (dimension + 1)
  IN  TypedArrayFill(size, generateGridWrites(dimension))

\* A generator that writes every index of the first line twice.
generateGridIndicesWrites_Doubled(dimension) ==
  [n \in 1..(dimension * (2 + 2 * dimension)) |->
     (((n - 1) \div 2) \div (dimension + 1)) * (dimension + 1)
       + (((n - 1) \div 2) % (dimension + 1))]

\* A generator whose second line starts one vertex early.
generateGridIndicesWrites_ShortLine(dimension) ==
  [n \in 1..(dimension * (2 + 2 * dimension)) |->
     IF n % 2 = 1
     THEN (((n - 1) \div 2) \div (dimension + 1)) * (dimension + 1)
            + (((n - 1) \div 2) % (dimension + 1))
     ELSE (((n - 1) \div 2) \div (dimension + 1)) * (dimension + 1)
            + dimension + (((n - 1) \div 2) % (dimension + 1))]

\* The values generateGridIndices_ writes, in order: for each line i in
\* 0 .. dimension - 1 the pair start1, start2 and then, for j in
\* 1 .. dimension, the pair start1 + j, start2 + j.
generateGridIndicesWrites(dimension) ==
  [n \in 1..(dimension * (2 + 2 * dimension)) |->
     LET pair == (n - 1) \div 2
         i == pair \div (dimension + 1)
         j == pair % (dimension + 1)
         start1 == i * (dimension + 1)
         start2 == (i + 1) * (dimension + 1)
     IN  IF n % 2 = 1 THEN start1 + j ELSE start2 + j]

\* An array of 8-bit slots.
Uint8(values) == [n \in 1..Len(values) |-> values[n] % 256]

\* A Uint16Array keeps in each slot the value written modulo 2^16.
Uint16(values) == [n \in 1..Len(values) |-> values[n] % 65536]

generateGridIndicesOf(dimension) ==
  Uint16(TypedArrayFill((2 * dimension + 2) * dimension,
                        generateGridIndicesWrites(dimension)))

generateGrid_ == generateGridOf(GRID_DIMENSION_)

generateGridIndices_ == generateGridIndicesOf(GRID_DIMENSION_)

\* generateBarycentric: the table of the three unit vectors.
possibilites == <<1, 0, 0,
                  0, 1, 0,
                  0, 0, 1>>

\* A choice of the unit vector that looks at the column only.
BarycentricCoord_ColumnOnly(i, j) == j % 3

\* coord for the vertex in row i, column j: the switch on i % 3, then
\* coord = (coord + j) % 3.
BarycentricCoord(i, j) ==
  ((CASE i % 3 = 0 -> 0
      [] i % 3 = 1 -> 2
      [] i % 3 = 2 -> 1) + j) % 3

\* The writes of generateBarycentric in the order of its loops (i, then j,
\* then the three components): the slot idx, from 0, and the value.
generateBarycentricWrites(dimension) ==
  [n \in 1..(3 * (dimension + 1) * (dimension + 1)) |->
     [idx |-> 3 * ((((n - 1) \div 3) \div (dimension + 1)) * (dimension + 1)
                    + (((n - 1) \div 3) % (dimension + 1)))
                + ((n - 1) % 3),
      value |-> possibilites[
                  3 * BarycentricCoord(((n - 1) \div 3) \div (dimension + 1),
                                       ((n - 1) \div 3) % (dimension + 1))
                    + ((n - 1) % 3) + 1]]]

\* The array generateBarycentric returns; the writes go to the slots in
\* ascending order.
generateBarycentricOf(dimension) ==
  TypedArrayFill(3 * (dimension + 1) * (dimension + 1),
                 [n \in 1..(3 * (dimension + 1) * (dimension + 1)) |->
                    generateBarycentricWrites(dimension)[n].value])

\* Draw calls whose offset counts indices, not bytes.
drawMountainsOf_IndexOffset(dimension) ==
  [k \in 1..dimension |->
     [count |-> 2 * dimension + 2, offset |-> (k - 1) * (2 * dimension + 2)]]

\* The drawElements calls of drawMountains_, in order: one strip per line;
\* offset is in bytes.
drawMountainsOf(dimension) ==
  LET verticesPerStrip == 2 * dimension + 2
  IN  [k \in 1..dimension |->
         [count |-> verticesPerStrip,
          offset |-> (k - 1) * verticesPerStrip * 2]]

drawMountains_ == drawMountainsOf(GRID_DIMENSION_)

(***************************************************************************)
(* The frame loop's host: requestAnimationFrame hands out the next handle  *)
(* and keeps the callback until it fires or is cancelled.                  *)
(***************************************************************************)
cancelAnimationFrame_(callbacks, handle) == callbacks \ {handle}

requestAnimationFrame_(callbacks, handle) == callbacks \cup {handle}

\* startRendering that leaves the mesh to someone else.
startRendering_NoMesh(loopId, callbacks, next) ==
  [cancelled |-> IF loopId # 0 THEN <<loopId>> ELSE <<>>,
   generated |-> <<>>,
   gridVertices_ |-> <<>>,
   gridIndices_ |-> <<>>,
   callbacks |-> requestAnimationFrame_(callbacks \ {loopId}, next),
   renderingLoopId_ |-> next]

\* startRendering on a renderer whose loop id is loopId: what it cancels,
\* the callbacks afterwards and the new loop id (the handle next).
startRendering(loopId, callbacks, next) ==
  LET stopped == IF loopId # 0
                 THEN cancelAnimationFrame_(callbacks, loopId)
                 ELSE callbacks
  IN  [cancelled |-> IF loopId # 0 THEN <<loopId>> ELSE <<>>,
       generated |-> <<"generateGrid_", "generateGridIndices_">>,
       gridVertices_ |-> generateGrid_,
       gridIndices_ |-> generateGridIndices_,
       callbacks |-> requestAnimationFrame_(stopped, next),
       renderingLoopId_ |-> next]

\* resize_ that takes the client size for the display size.
resize_IgnoresRatio(clientWidth, clientHeight, ratioHalves, width, height, view) ==
  IF width # clientWidth \/ height # clientHeight
  THEN [width |-> clientWidth, height |-> clientHeight,
        viewport |-> <<0, 0, clientWidth, clientHeight>>,
        viewportCalls |-> 1, assigned |-> <<"width", "height">>]
  ELSE [width |-> width, height |-> height, viewport |-> view,
        viewportCalls |-> 0, assigned |-> <<>>]

\* resize_ without the comparison of the sizes.
resize_Always(clientWidth, clientHeight, ratioHalves, width, height, view) ==
  [width |-> (clientWidth * (IF ratioHalves = 0 THEN 2 ELSE ratioHalves))
               \div 2,
   height |-> (clientHeight * (IF ratioHalves = 0 THEN 2 ELSE ratioHalves))
                \div 2,
   viewport |-> <<0, 0,
                  (clientWidth * (IF ratioHalves = 0 THEN 2 ELSE ratioHalves))
                    \div 2,
                  (clientHeight * (IF ratioHalves = 0 THEN 2 ELSE ratioHalves))
                    \div 2>>,
   viewportCalls |-> 1, assigned |-> <<"width", "height">>]

\* resize_: ratioHalves is window.devicePixelRatio in halves (3 is 1.5; 0
\* is a missing or zero ratio, for which the code takes 1).  assigned
\* lists the properties of the canvas the call assigns, in order.
resize_(clientWidth, clientHeight, ratioHalves, width, height, view) ==
  LET pixelRatioHalves == IF ratioHalves = 0 THEN 2 ELSE ratioHalves
      displayWidth == (clientWidth * pixelRatioHalves) \div 2
      displayHeight == (clientHeight * pixelRatioHalves) \div 2
  IN  IF width # displayWidth \/ height # displayHeight
      THEN [width |-> displayWidth, height |-> displayHeight,
            viewport |-> <<0, 0, displayWidth, displayHeight>>,
            viewportCalls |-> 1, assigned |-> <<"width", "height">>]
      ELSE [width |-> width, height |-> height, viewport |-> view,
            viewportCalls |-> 0, assigned |-> <<>>]

ClientSizes == (MaxClientSize - 1)..MaxClientSize

PixelRatioHalves == {0, 2, 3, 4}

\* `this` in a call Landscape.Renderer.setUpWebGL_(): the constructor
\* function itself, which has neither canvas_ nor programs_.
LandscapeRenderer == [canvas_ |-> FALSE, programs_ |-> <<>>]

(***************************************************************************)
(* The state.                                                              *)
(***************************************************************************)
VARIABLES
  phase,             \* "new", "constructed" (the constructor returned),
                     \* "failed" (the constructor threw)
  lifecycle,         \* "None", "Active", "Lost" (after a loss notification)
  contextLost,       \* the context's lost flag, gl.isContextLost()
  renderingLoopId_,
  programs_,
  gl_,               \* TRUE once a context is assigned
  gridVertices_,
  gridIndices_,
  callbacks,         \* the handles of the frame callbacks that are pending
  nextHandle,        \* the handle requestAnimationFrame returns next
  canvasWidth,
  canvasHeight,
  viewport,
  store,             \* the shaders and programs alive on the context
  dimension,         \* Landscape.Renderer.GRID_DIMENSION_ of the build
  lastOp             \* what the last handler did

vars == <<phase, lifecycle, contextLost, renderingLoopId_, programs_, gl_,
          gridVertices_, gridIndices_, callbacks, nextHandle, canvasWidth,
          canvasHeight, viewport, store, dimension, lastOp>>

\* The ids the code holds in constants: the canvas (Landscape.CANVAS_ID) and
\* the three sliders of Landscape.Controls.
CANVAS_ID == "landscapeCanvas"
CAMERY_X_ID_ == "camerax"
CAMERY_Y_ID_ == "cameray"
CAMERY_Z_ID_ == "cameraZ"

\* The ids of the elements of index.html; ids are compared letter by
\* letter, upper and lower case being different letters.
IndexHtmlIds == {"wireframeVertex", "wireframeFragment", "landscapeCanvas",
                 "camerax", "cameray", "cameraz"}

\* The ids a lookup is made with.
ElementIds ==
  {CANVAS_ID, CAMERY_X_ID_, CAMERY_Y_ID_, CAMERY_Z_ID_} \cup Range(SHADER_IDS_)

\* Landscape.Controls.getElement_(id) on the page index.html.
getElement_(id) ==
  IF id \notin IndexHtmlIds
  THEN [threw |-> TRUE,
        message |-> <<"Couldn't find element with id '", id, "' in the ",
                      "DOM.">>]
  ELSE [threw |-> FALSE, message |-> <<>>]

Op(name) ==
  [name |-> name, id |-> "", threw |-> FALSE, error |-> "", message |-> <<>>,
   cancelled |-> <<>>, requested |-> <<>>, log |-> <<>>, draws |-> <<>>,
   viewportCalls |-> 0, lifecycle |-> lifecycle, pending |-> callbacks,
   env |-> <<>>, resize |-> <<>>, steps |-> <<>>, after |-> "",
   generated |-> <<>>, populated |-> gridVertices_ # <<>>,
   barycentric |-> <<>>]

Init ==
  /\ phase = "new"
  /\ lifecycle = "None"
  /\ contextLost \in BOOLEAN
  /\ renderingLoopId_ = 0
  /\ programs_ = <<>>
  /\ gl_ = FALSE
  /\ gridVertices_ = <<>>
  /\ gridIndices_ = <<>>
  /\ callbacks = {}
  /\ nextHandle = 1
  /\ canvasWidth = CanvasDefaultWidth
  /\ canvasHeight = CanvasDefaultHeight
  /\ viewport = <<0, 0, CanvasDefaultWidth, CanvasDefaultHeight>>
  /\ store = EmptyStore
  /\ dimension = GRID_DIMENSION_
  /\ lastOp = Op("load")

\* A lookup of one of the configured ids on the page, before the renderer
\* is constructed.
GetElement ==
  /\ phase = "new"
  /\ \E id \in ElementIds :
       lastOp' = [Op("getElement_") EXCEPT
                    !.id = id,
                    !.threw = getElement_(id).threw,
                    !.error = IF getElement_(id).threw THEN "Error" ELSE "",
                    !.message = getElement_(id).message]
  /\ UNCHANGED <<phase, lifecycle, contextLost, renderingLoopId_, programs_,
                 gl_, gridVertices_, gridIndices_, callbacks, nextHandle,
                 canvasWidth, canvasHeight, viewport, store, dimension>>

\* A constructor that ends with this.startRendering().
Construct_StartsLoop ==
  /\ phase = "new"
  /\ UNCHANGED dimension
  /\ \E env \in Envs :
       /\ env.lost = contextLost
       /\ \E r \in {setUpWebGL_([canvas_ |-> TRUE, programs_ |-> <<>>], env)},
              s \in {startRendering(0, callbacks, nextHandle)} :
              /\ phase' = IF r.threw THEN "failed" ELSE "constructed"
              /\ lifecycle' = IF r.threw THEN "None" ELSE "Active"
              /\ programs_' = r.programs_
              /\ gl_' = r.gl
              /\ store' = IF contextLost THEN EmptyStore
                          ELSE GlRun(EmptyStore, r.log)
              /\ renderingLoopId_' = IF r.threw THEN 0
                                     ELSE s.renderingLoopId_
              /\ callbacks' = IF r.threw THEN callbacks ELSE s.callbacks
              /\ nextHandle' = IF r.threw THEN nextHandle
                               ELSE nextHandle + 1
              /\ gridVertices_' = IF r.threw THEN <<>> ELSE s.gridVertices_
              /\ gridIndices_' = IF r.threw THEN <<>> ELSE s.gridIndices_
              /\ lastOp' = [Op("Renderer") EXCEPT
                              !.threw = r.threw, !.error = r.error,
                              !.message = r.message, !.log = r.log,
                              !.env = <<env>>]
  /\ UNCHANGED <<contextLost, canvasWidth, canvasHeight, viewport>>

\* new Landscape.Renderer(canvas)
Construct ==
  /\ phase = "new"
  /\ UNCHANGED dimension
  /\ \E env \in Envs :
       /\ env.lost = contextLost
       /\ \E r \in {setUpWebGL_([canvas_ |-> TRUE, programs_ |-> <<>>], env)} :
              /\ phase' = IF r.threw THEN "failed" ELSE "constructed"
              /\ lifecycle' = IF r.threw THEN "None" ELSE "Active"
              /\ programs_' = r.programs_
              /\ gl_' = r.gl
              /\ store' = IF contextLost THEN EmptyStore
                          ELSE GlRun(EmptyStore, r.log)
              /\ lastOp' = [Op("Renderer") EXCEPT
                              !.threw = r.threw, !.error = r.error,
                              !.message = r.message, !.log = r.log,
                              !.env = <<env>>]
  /\ renderingLoopId_' = 0
  /\ gridVertices_' = <<>>
  /\ gridIndices_' = <<>>
  /\ UNCHANGED <<contextLost, callbacks, nextHandle, canvasWidth,
                 canvasHeight, viewport>>

\* renderer.startRendering(), called by the owner of the renderer
StartRendering ==
  /\ phase = "constructed"
  /\ UNCHANGED dimension
  /\ nextHandle <= MaxHandle
  /\ \E s \in {startRendering(renderingLoopId_, callbacks, nextHandle)} :
         /\ callbacks' = s.callbacks
         /\ renderingLoopId_' = s.renderingLoopId_
         /\ gridVertices_' = s.gridVertices_
         /\ gridIndices_' = s.gridIndices_
         /\ lastOp' = [Op("startRendering") EXCEPT
                         !.cancelled = s.cancelled,
                         !.generated = s.generated,
                         !.requested = <<nextHandle>>]
  /\ nextHandle' = nextHandle + 1
  /\ UNCHANGED <<phase, lifecycle, contextLost, programs_, gl_, canvasWidth,
                 canvasHeight, viewport, store>>

\* A frame callback that does not ask for the next frame.
RenderFrame_NoReschedule ==
  /\ nextHandle <= MaxHandle
  /\ UNCHANGED dimension
  /\ \E handle \in callbacks, clientWidth \in ClientSizes,
        clientHeight \in ClientSizes, ratioHalves \in PixelRatioHalves :
       \E z \in {resize_(clientWidth, clientHeight, ratioHalves, canvasWidth,
                       canvasHeight, viewport)} :
           /\ canvasWidth' = z.width
           /\ canvasHeight' = z.height
           /\ viewport' = z.viewport
           /\ callbacks' = callbacks \ {handle}
           /\ lastOp' = [Op("renderFrame_") EXCEPT
                           !.draws = drawMountains_,
                           !.viewportCalls = z.viewportCalls,
                           !.steps = <<"resize_", "drawMountains_">>,
                           !.resize =
                             <<[clientWidth |-> clientWidth,
                                clientHeight |-> clientHeight,
                                ratioHalves |-> ratioHalves,
                                width |-> canvasWidth,
                                height |-> canvasHeight,
                                viewport |-> viewport,
                                assigned |-> z.assigned]>>]
  /\ UNCHANGED <<phase, lifecycle, contextLost, programs_, gl_, gridVertices_,
                 gridIndices_, store, renderingLoopId_, nextHandle>>

\* The browser runs the pending callback: renderFrame_
RenderFrame ==
  /\ nextHandle <= MaxHandle
  /\ UNCHANGED dimension
  /\ \E handle \in callbacks, clientWidth \in ClientSizes,
        clientHeight \in ClientSizes, ratioHalves \in PixelRatioHalves :
       \E z \in {resize_(clientWidth, clientHeight, ratioHalves, canvasWidth,
                       canvasHeight, viewport)} :
           /\ canvasWidth' = z.width
           /\ canvasHeight' = z.height
           /\ viewport' = z.viewport
           /\ callbacks' = requestAnimationFrame_(callbacks \ {handle},
                                                  nextHandle)
           /\ renderingLoopId_' = nextHandle
           /\ lastOp' = [Op("renderFrame_") EXCEPT
                           !.draws = drawMountains_,
                           !.viewportCalls = z.viewportCalls,
                           !.requested = <<nextHandle>>,
                           !.steps = <<"resize_", "drawMountains_",
                                       "requestAnimationFrame_">>,
                           !.resize =
                             <<[clientWidth |-> clientWidth,
                                clientHeight |-> clientHeight,
                                ratioHalves |-> ratioHalves,
                                width |-> canvasWidth,
                                height |-> canvasHeight,
                                viewport |-> viewport,
                                assigned |-> z.assigned]>>]
  /\ nextHandle' = nextHandle + 1
  /\ UNCHANGED <<phase, lifecycle, contextLost, programs_, gl_, gridVertices_,
                 gridIndices_, store>>

\* The fields of lastOp: the handler (name), whether it threw and what,
\* the handles it passed to cancelAnimationFrame_ and got from
\* requestAnimationFrame_, its calls on the context (log), its drawElements
\* calls (draws), and the lifecycle state and the pending callbacks it
\* started from; for setUpWebGL_ in the constructor, what the browser
\* answered (env); for renderFrame_, what resize_ started from and which
\* properties of the canvas it assigned (resize), and the order of its
\* steps (steps); for the listener of 'webglcontextlost', the handler that
\* ran before it (after); the mesh generators it ran (generated) and
\* whether it found the mesh generated (populated); for drawMountains_ on
\* its own, the array of generateBarycentric (barycentric).

\* A listener of 'webglcontextlost' that only prevents the default.
ContextLost_NoCancel ==
  /\ phase # "new"
  /\ UNCHANGED dimension
  /\ contextLost' = TRUE
  /\ store' = EmptyStore
  /\ lifecycle' = IF lifecycle = "Active" THEN "Lost" ELSE lifecycle
  /\ lastOp' = Op("webglcontextlost")
  /\ UNCHANGED <<phase, renderingLoopId_, programs_, gl_, gridVertices_,
                 gridIndices_, callbacks, nextHandle, canvasWidth,
                 canvasHeight, viewport>>

\* A listener that cancels without looking at renderingLoopId_.
ContextLost_Unguarded ==
  /\ phase # "new"
  /\ UNCHANGED dimension
  /\ contextLost' = TRUE
  /\ store' = EmptyStore
  /\ lifecycle' = IF lifecycle = "Active" THEN "Lost" ELSE lifecycle
  /\ callbacks' = cancelAnimationFrame_(callbacks, renderingLoopId_)
  /\ lastOp' = [Op("webglcontextlost") EXCEPT
                  !.cancelled = <<renderingLoopId_>>,
                  !.after = lastOp.name]
  /\ UNCHANGED <<phase, renderingLoopId_, programs_, gl_, gridVertices_,
                 gridIndices_, nextHandle, canvasWidth, canvasHeight,
                 viewport>>

\* The listener of 'webglcontextlost'.  The browser has set the lost flag
\* and dropped the objects of the context.
ContextLost ==
  /\ phase # "new"
  /\ UNCHANGED dimension
  /\ contextLost' = TRUE
  /\ store' = EmptyStore
  /\ lifecycle' = IF lifecycle = "Active" THEN "Lost" ELSE lifecycle
  /\ callbacks' = IF renderingLoopId_ # 0
                  THEN cancelAnimationFrame_(callbacks, renderingLoopId_)
                  ELSE callbacks
  /\ lastOp' = [Op("webglcontextlost") EXCEPT
                  !.cancelled = IF renderingLoopId_ # 0
                                THEN <<renderingLoopId_>> ELSE <<>>,
                  !.after = lastOp.name]
  /\ UNCHANGED <<phase, renderingLoopId_, programs_, gl_, gridVertices_,
                 gridIndices_, nextHandle, canvasWidth, canvasHeight,
                 viewport>>

\* The listener of 'webglcontextrestored'.  The browser has cleared the
\* lost flag.  setUpWebGL_ is called on Landscape.Renderer, not on the
\* renderer.
ContextRestored ==
  /\ phase # "new"
  /\ UNCHANGED dimension
  /\ nextHandle <= MaxHandle
  /\ contextLost' = FALSE
  /\ \E env \in EnvsOf(LandscapeRenderer) :
       /\ ~env.lost
       /\ \E r \in {setUpWebGL_(LandscapeRenderer, env)},
              s \in {startRendering(renderingLoopId_, callbacks, nextHandle)} :
              IF r.threw
              THEN /\ lastOp' = [Op("webglcontextrestored") EXCEPT
                                   !.threw = TRUE, !.error = r.error,
                                   !.message = r.message, !.log = r.log]
                   /\ UNCHANGED <<lifecycle, renderingLoopId_, gl_,
                                  gridVertices_, gridIndices_, callbacks,
                                  nextHandle, store>>
              ELSE /\ gl_' = r.gl
                   /\ lifecycle' = "Active"
                   /\ store' = GlRun(store, r.log)
                   /\ callbacks' = s.callbacks
                   /\ renderingLoopId_' = s.renderingLoopId_
                   /\ gridVertices_' = s.gridVertices_
                   /\ gridIndices_' = s.gridIndices_
                   /\ nextHandle' = nextHandle + 1
                   /\ lastOp' = [Op("webglcontextrestored") EXCEPT
                                   !.log = r.log,
                                   !.cancelled = s.cancelled,
                                   !.generated = s.generated,
                                   !.requested = <<nextHandle>>]
  /\ UNCHANGED <<phase, programs_, canvasWidth, canvasHeight, viewport>>

Next ==
  \/ GetElement
  \/ Construct
  \/ StartRendering
  \/ RenderFrame
  \/ ContextLost
  \/ ContextRestored

Spec == Init /\ [][Next]_vars

(***************************************************************************)
(* The mesh generators on their own, for builds with other values of       *)
(* GRID_DIMENSION_: the small dimensions, the largest one whose vertices   *)
(* can all be indexed with 16 bits, and the one after it.                  *)
(***************************************************************************)
EdgeDimensions == {255, 256}

Dimensions == (1..MaxDimension) \cup EdgeDimensions

MeshInit ==
  /\ dimension \in Dimensions
  /\ phase = "constructed"
  /\ lifecycle = "Active"
  /\ contextLost = FALSE
  /\ renderingLoopId_ = 0
  /\ programs_ = <<>>
  /\ gl_ = TRUE
  /\ gridVertices_ = <<>>
  /\ gridIndices_ = <<>>
  /\ callbacks = {}
  /\ nextHandle = 1
  /\ canvasWidth = CanvasDefaultWidth
  /\ canvasHeight = CanvasDefaultHeight
  /\ viewport = <<0, 0, CanvasDefaultWidth, CanvasDefaultHeight>>
  /\ store = EmptyStore
  /\ lastOp = Op("load")

\* this.gridVertices_ = this.generateGrid_()
GenerateGrid ==
  /\ gridVertices_ = <<>>
  /\ gridVertices_' = generateGridOf(dimension)
  /\ lastOp' = Op("generateGrid_")
  /\ UNCHANGED <<phase, lifecycle, contextLost, renderingLoopId_, programs_,
                 gl_, gridIndices_, callbacks, nextHandle, canvasWidth,
                 canvasHeight, viewport, store, dimension>>

\* this.gridIndices_ = this.generateGridIndices_()
GenerateGridIndices ==
  /\ gridIndices_ = <<>>
  /\ gridIndices_' = generateGridIndicesOf(dimension)
  /\ lastOp' = Op("generateGridIndices_")
  /\ UNCHANGED <<phase, lifecycle, contextLost, renderingLoopId_, programs_,
                 gl_, gridVertices_, callbacks, nextHandle, canvasWidth,
                 canvasHeight, viewport, store, dimension>>

\* this.drawMountains_(), the mesh being generated
DrawMountains ==
  /\ gridVertices_ # <<>>
  /\ gridIndices_ # <<>>
  /\ lastOp.name # "drawMountains_"
  /\ lastOp' = [Op("drawMountains_") EXCEPT
                  !.draws = drawMountainsOf(dimension),
                  !.barycentric = generateBarycentricOf(dimension)]
  /\ UNCHANGED <<phase, lifecycle, contextLost, renderingLoopId_, programs_,
                 gl_, gridVertices_, gridIndices_, callbacks, nextHandle,
                 canvasWidth, canvasHeight, viewport, store, dimension>>

MeshNext ==
  \/ GenerateGrid
  \/ GenerateGridIndices
  \/ DrawMountains

MeshSpec == MeshInit /\ [][MeshNext]_vars

TypeOK ==
  /\ phase \in {"new", "constructed", "failed"}
  /\ lifecycle \in {"None", "Active", "Lost"}
  /\ contextLost \in BOOLEAN
  /\ renderingLoopId_ \in 0..MaxHandle
  /\ callbacks \subseteq 1..MaxHandle
  /\ nextHandle \in 1..(MaxHandle + 1)
  /\ gl_ \in BOOLEAN
  /\ (callbacks # {} => gl_)
  /\ dimension = GRID_DIMENSION_

\* The frame loop: a pending callback is the one renderingLoopId_ names.
FrameLoopInv == callbacks \subseteq {renderingLoopId_}

(***************************************************************************)
(* The claims.                                                             *)
(***************************************************************************)
\* The handlers that run setUpWebGL_.
SetUpOps == {"Renderer", "webglcontextrestored"}

\* Some shader of the run did not compile, or some program did not link.
FailedStatus(log) ==
  \E k \in 1..Len(log) :
    log[k].op \in {"compileShader", "linkProgram"} /\ log[k].b = 0

\* C1: right after the 'webglcontextlost' listener has returned no frame
\* callback is pending, so renderFrame_ cannot run before a later
\* startRendering or restore schedules one.
C1_NoFramePendingAfterLoss ==
  lastOp.name = "webglcontextlost" =>
    callbacks = {} /\ ~ENABLED RenderFrame

\* C1, its case: the listener ran while a frame callback was pending.
C1_Witness ==
  /\ lastOp.name = "webglcontextlost"
  /\ lastOp.pending # {}
  /\ lastOp.cancelled # <<>>
  /\ callbacks = {}

\* C2: no draw call is issued while the context is in the Lost state, that
\* is after a loss notification and before a successful re-acquisition.
C2_NoDrawWhileLost ==
  ~(lastOp.name = "renderFrame_" /\ lastOp.draws # <<>>
      /\ lastOp.lifecycle = "Lost")

\* C3: after a loss notification is handled renderingLoopId_ is 0.
C3_LoopIdZeroAfterLoss ==
  lastOp.name = "webglcontextlost" => renderingLoopId_ = 0

\* C4: a restore notification after a loss re-acquires the context,
\* recompiles the programs into this renderer's program set and restarts
\* the frame loop: afterwards the renderer is Active with exactly one frame
\* callback pending.
C4_RestoreRestartsLoop ==
  (lastOp.name = "webglcontextrestored" /\ lastOp.lifecycle = "Lost") =>
    /\ ~lastOp.threw
    /\ lifecycle = "Active"
    /\ gl_
    /\ Keys(programs_) = ProgramNames
    /\ Cardinality(callbacks) = 1

\* C5: at most one frame callback is pending in every state; startRendering
\* and a restore each leave exactly one pending callback, however often
\* they are repeated, and a frame callback leaves exactly its one successor.
C5_ExactlyOnePending ==
  /\ Cardinality(callbacks) <= 1
  /\ (lastOp.name \in {"startRendering", "webglcontextrestored"} =>
        Cardinality(callbacks) = 1)
  /\ (lastOp.name = "renderFrame_" =>
        /\ Len(lastOp.requested) = 1
        /\ callbacks = {lastOp.requested[1]})

\* C6: between handlers renderingLoopId_ is 0 exactly when no frame
\* callback is pending, and otherwise it is the handle of the one callback
\* that is pending.
C6_LoopIdIsLiveToken ==
  /\ (renderingLoopId_ = 0 <=> callbacks = {})
  /\ (renderingLoopId_ # 0 => callbacks = {renderingLoopId_})

\* C7: when setUpWebGL_ throws, every shader and every program it created
\* on the context has been deleted: none of them is alive.
C7_FailedSetUpLeaksNothing ==
  (lastOp.name \in SetUpOps /\ lastOp.threw) =>
    /\ GlRun(EmptyStore, lastOp.log).shaders = {}
    /\ GlRun(EmptyStore, lastOp.log).programs = {}

\* C7, its case: the second program failed to link, after two shaders and
\* one program had been created successfully.
C7_Witness ==
  /\ lastOp.name = "Renderer"
  /\ lastOp.threw
  /\ CountOp(lastOp.log, "createShader") = 2
  /\ CountOp(lastOp.log, "createProgram") = 2
  /\ CountOp(lastOp.log, "deleteProgram") = 2

\* C8: after setUpWebGL_ has returned or thrown on a context that is not
\* lost, programs_ is empty or maps every name of PROGRAM_SHADERS_ to a
\* linked program that is alive on the current context.
C8_ProgramSetAllOrNothing ==
  (lastOp.name \in SetUpOps /\ ~contextLost) =>
    \/ programs_ = <<>>
    \/ /\ Keys(programs_) = ProgramNames
       /\ \A k \in 1..Len(programs_) :
            programs_[k].val \in store.programs \cap store.linked

\* C9 as stated: whenever a shader fails to compile or a program fails to
\* link, setUpWebGL_ throws and returns no context, whether or not the
\* context is lost.
C9_FailureAlwaysAborts ==
  (lastOp.name = "Renderer" /\ FailedStatus(lastOp.log)) =>
    lastOp.threw /\ ~gl_

\* C9 as amended: whenever a shader fails to compile or a program fails to
\* link while the context is not lost, setUpWebGL_ throws and returns no
\* context; on a lost context the failed status raises no compile or link
\* error.
C9_FailureAbortsUnlessLost ==
  (lastOp.name = "Renderer" /\ FailedStatus(lastOp.log)) =>
    IF lastOp.env[1].lost
    THEN lastOp.threw =>
           lastOp.message[1] \notin {"Error compiling shader '",
                                     "Error linking program: "}
    ELSE lastOp.threw /\ ~gl_

\* C9, its case: a program failed to link on a context that is not lost.
C9_Witness ==
  /\ lastOp.name = "Renderer"
  /\ ~lastOp.env[1].lost
  /\ \E k \in 1..Len(lastOp.log) :
       lastOp.log[k].op = "linkProgram" /\ lastOp.log[k].b = 0
  /\ lastOp.threw
  /\ ~gl_

\* C10: the error of a failed batch carries the script id of the shader
\* that failed to compile, or the name of the program that failed to link,
\* and the info log of the compiler or linker.
C10_ErrorNamesOffender ==
  (lastOp.name = "Renderer" /\ lastOp.threw /\ ~lastOp.env[1].lost
     /\ FailedStatus(lastOp.log)) =>
    IF \E k \in 1..Len(lastOp.log) :
         lastOp.log[k].op = "compileShader" /\ lastOp.log[k].b = 0
    THEN /\ SHADER_IDS_[CountOp(lastOp.log, "createShader")]
              \in Range(lastOp.message)
         /\ getShaderInfoLog \in Range(lastOp.message)
    ELSE /\ PROGRAM_SHADERS_[CountOp(lastOp.log, "createProgram")].id
              \in Range(lastOp.message)
         /\ getProgramInfoLog \in Range(lastOp.message)

\* The look-ups of the script in position k of SHADER_IDS_ in a log.
Lookups(log, k) ==
  { n \in 1..Len(log) : log[n].op = "getElementById" /\ log[n].a = k }

\* C11: in one call of setUpWebGL_ every script id is looked up at most
\* once; when the call succeeds every id was looked up and compiled exactly
\* once, so the number of createShader calls is the number of distinct ids
\* and not twice the number of programs.
C11_EachSourceCompiledOnce ==
  lastOp.name = "Renderer" =>
    /\ \A k \in 1..Len(SHADER_IDS_) :
         Cardinality(Lookups(lastOp.log, k)) <= 1
    /\ ~lastOp.threw =>
         /\ \A k \in 1..Len(SHADER_IDS_) :
              Cardinality(Lookups(lastOp.log, k)) = 1
         /\ CountOp(lastOp.log, "createShader")
              = Cardinality(Range(SHADER_IDS_))
         /\ CountOp(lastOp.log, "compileShader")
              = Cardinality(Range(SHADER_IDS_))
         /\ CountOp(lastOp.log, "createShader")
              # 2 * Len(PROGRAM_SHADERS_)

\* C11, its case: a successful set-up whose two programs were both made
\* from the same two shaders.
C11_Witness ==
  /\ lastOp.name = "Renderer"
  /\ ~lastOp.threw
  /\ CountOp(lastOp.log, "createProgram") = 2
  /\ \E n, m \in 1..Len(lastOp.log) :
       /\ lastOp.log[n].op = "attachShader"
       /\ lastOp.log[m].op = "attachShader"
       /\ lastOp.log[n].a # lastOp.log[m].a
       /\ lastOp.log[n].b = lastOp.log[m].b

\* C12: a call of setUpWebGL_ that got a context requests the extension
\* exactly once and before every other call; when the extension is
\* unavailable the call throws, no script is looked up, no shader and no
\* program is created, and programs_ is what it was (empty).
C12_ExtensionOnceUpFront ==
  (lastOp.name = "Renderer" /\ lastOp.env[1].ctx) =>
    /\ lastOp.log # <<>>
    /\ lastOp.log[1].op = "getExtension"
    /\ CountOp(lastOp.log, "getExtension") = 1
    /\ ~lastOp.env[1].ext =>
         /\ lastOp.threw
         /\ lastOp.message
              = <<"Could not load extension: ", "OES_standard_derivatives">>
         /\ Len(lastOp.log) = 1
         /\ programs_ = <<>>
         /\ ~gl_

\* C12, its case: the context was obtained and the extension was not.
C12_Witness ==
  /\ lastOp.name = "Renderer"
  /\ lastOp.env[1].ctx
  /\ ~lastOp.env[1].ext
  /\ lastOp.threw
  /\ CountOp(lastOp.log, "getExtension") = 1

\* C13: when getContext returns no context the constructor throws before
\* the extension is requested, a script is looked up, a shader is compiled
\* or a program is stored, and renderingLoopId_ stays 0; a renderer whose
\* constructor threw never has a frame callback scheduled.
C13_AcquisitionFailureIsFatal ==
  /\ (lastOp.name = "Renderer" /\ ~lastOp.env[1].ctx) =>
       /\ lastOp.threw
       /\ lastOp.error = "Error"
       /\ lastOp.message = <<"Could not get a WebGL context.">>
       /\ lastOp.log = <<>>
       /\ programs_ = <<>>
       /\ phase = "failed"
  /\ phase = "failed" =>
       /\ renderingLoopId_ = 0
       /\ callbacks = {}
       /\ ~gl_
       /\ ~ENABLED StartRendering
       /\ ~ENABLED RenderFrame

\* C13, its case: the constructor ran and getContext returned nothing.
C13_Witness ==
  /\ lastOp.name = "Renderer"
  /\ ~lastOp.env[1].ctx
  /\ lastOp.threw
  /\ phase = "failed"

\* C14 as stated: a successful construction leaves the renderer Active with
\* the programs compiled, the grid mesh generated and the frame loop
\* started: a frame callback is pending and renderingLoopId_ is not 0.
C14_ConstructionStartsLoop ==
  (lastOp.name = "Renderer" /\ ~lastOp.threw) =>
    /\ lifecycle = "Active"
    /\ Keys(programs_) = ProgramNames
    /\ gridVertices_ = generateGrid_
    /\ gridIndices_ = generateGridIndices_
    /\ renderingLoopId_ # 0
    /\ callbacks = {renderingLoopId_}

\* C14 as amended: a successful construction leaves the renderer Active
\* with the programs compiled, but with empty mesh arrays and no frame
\* loop (renderingLoopId_ is 0, no callback is pending); the owner's call
\* of startRendering generates the mesh and leaves one callback pending,
\* whose handle is renderingLoopId_.
C14_OwnerStartsLoop ==
  /\ (lastOp.name = "Renderer" /\ ~lastOp.threw) =>
       /\ lifecycle = "Active"
       /\ gl_
       /\ Keys(programs_) = ProgramNames
       /\ gridVertices_ = <<>>
       /\ gridIndices_ = <<>>
       /\ renderingLoopId_ = 0
       /\ callbacks = {}
  /\ lastOp.name = "startRendering" =>
       /\ gridVertices_ = generateGrid_
       /\ gridIndices_ = generateGridIndices_
       /\ renderingLoopId_ # 0
       /\ callbacks = {renderingLoopId_}

\* C14, its case: the constructor has returned and the owner has not yet
\* called startRendering.
C14_Witness ==
  /\ lastOp.name = "Renderer"
  /\ ~lastOp.threw
  /\ phase = "constructed"
  /\ callbacks = {}
  /\ ENABLED StartRendering

\* The dimensions whose vertices can all be numbered with 16 bits.
Indexable(d) == d > 0 /\ (d + 1) * (d + 1) <= 65536

\* C15: for every dimension D > 0 with (D+1)^2 <= 65536, odd or even,
\* generateGrid_ makes exactly 2*(D+1)^2 writes into an array of that many
\* slots, and generateGridIndices_ makes exactly D*(2*D+2) writes into an
\* array of that many slots.
C15_MeshSizes ==
  Indexable(dimension) =>
    /\ gridVertices_ # <<>> =>
         /\ Len(generateGridWrites(dimension))
              = 2 * (dimension + 1) * (dimension + 1)
         /\ Len(gridVertices_) = 2 * (dimension + 1) * (dimension + 1)
    /\ gridIndices_ # <<>> =>
         /\ Len(generateGridIndicesWrites(dimension))
              = dimension * (2 * dimension + 2)
         /\ Len(gridIndices_) = dimension * (2 * dimension + 2)

\* C15, its case: both arrays were generated for an odd dimension.
C15_Witness ==
  /\ dimension % 2 = 1
  /\ dimension > 1
  /\ Indexable(dimension)
  /\ gridVertices_ # <<>>
  /\ gridIndices_ # <<>>

\* C16: generateGrid_ emits the vertices row by row: the vertex number
\* r*(D+1)+c has the coordinates (c - D/2, r - D/2), the lateral one first
\* (the array holds them doubled here); for D = 2 these are (-1,-1),
\* (0,-1), (1,-1), (-1,0), (0,0), (1,0), (-1,1), (0,1), (1,1).
C16_VerticesRowMajor ==
  gridVertices_ # <<>> =>
    /\ \A r \in 0..dimension, c \in 0..dimension :
         /\ gridVertices_[2 * (r * (dimension + 1) + c) + 1]
              = 2 * c - dimension
         /\ gridVertices_[2 * (r * (dimension + 1) + c) + 2]
              = 2 * r - dimension
    /\ dimension = 2 =>
         gridVertices_ = << -2, -2,  0, -2,  2, -2,
                            -2,  0,  0,  0,  2,  0,
                            -2,  2,  0,  2,  2,  2 >>

\* C16, its case: the vertices of the grid of dimension 2 were generated.
C16_Witness ==
  /\ dimension = 2
  /\ Len(gridVertices_) = 18
  /\ gridVertices_[1] = -2
  /\ gridVertices_[18] = 2

\* C17: generateGridIndices_ emits for each line i in [0, D) and each
\* column j in [0, D] the pair (i*(D+1)+j, (i+1)*(D+1)+j) at the positions
\* i*(2D+2)+2j and i*(2D+2)+2j+1, and the array holds these values when
\* the vertices can be numbered with 16 bits; for D = 2 it is
\* [0,3,1,4,2,5,3,6,4,7,5,8].
C17_IndexPairs ==
  gridIndices_ # <<>> =>
    /\ \A i \in 0..(dimension - 1), j \in 0..dimension :
         /\ generateGridIndicesWrites(dimension)
              [i * (2 * dimension + 2) + 2 * j + 1]
              = i * (dimension + 1) + j
         /\ generateGridIndicesWrites(dimension)
              [i * (2 * dimension + 2) + 2 * j + 2]
              = (i + 1) * (dimension + 1) + j
         /\ Indexable(dimension) =>
              /\ gridIndices_[i * (2 * dimension + 2) + 2 * j + 1]
                   = i * (dimension + 1) + j
              /\ gridIndices_[i * (2 * dimension + 2) + 2 * j + 2]
                   = (i + 1) * (dimension + 1) + j
    /\ dimension = 2 =>
         gridIndices_ = <<0, 3, 1, 4, 2, 5, 3, 6, 4, 7, 5, 8>>

\* C17, its case: the indices of the grid of dimension 2 were generated.
C17_Witness ==
  /\ dimension = 2
  /\ Len(gridIndices_) = 12
  /\ gridIndices_[2] = 3
  /\ gridIndices_[12] = 8

\* C18: for every D with (D+1)^2 <= 65536, the configured dimension among
\* them, every index written is below 2^16, the array holds it unchanged
\* and it numbers an existing vertex; for D = 256 the largest index does
\* not fit and the array holds another value.
C18_IndicesFit16Bits ==
  /\ Indexable(GRID_DIMENSION_)
  /\ gridIndices_ # <<>> =>
       IF Indexable(dimension)
       THEN \A n \in 1..Len(gridIndices_) :
              /\ generateGridIndicesWrites(dimension)[n] < 65536
              /\ gridIndices_[n] = generateGridIndicesWrites(dimension)[n]
              /\ gridIndices_[n] \in 0..((dimension + 1) * (dimension + 1) - 1)
       ELSE dimension = 256 =>
              /\ generateGridIndicesWrites(dimension)[Len(gridIndices_)]
                   = (dimension + 1) * (dimension + 1) - 1
              /\ generateGridIndicesWrites(dimension)[Len(gridIndices_)]
                   >= 65536
              /\ gridIndices_[Len(gridIndices_)]
                   # generateGridIndicesWrites(dimension)[Len(gridIndices_)]

\* C18, its case: the indices of the largest grid whose vertices can be
\* numbered with 16 bits were generated, the last of them being 2^16 - 1.
C18_Witness ==
  /\ dimension = 255
  /\ gridIndices_ # <<>>
  /\ gridIndices_[Len(gridIndices_)] = 65535

\* floor(client * pixelRatio), the ratio given in halves, 1 when it is
\* missing.
DisplaySize(client, ratioHalves) ==
  IF ratioHalves = 0 THEN client ELSE (client * ratioHalves) \div 2

\* C19: after resize_ the backing width and height of the canvas are
\* floor(clientWidth * pixelRatio) and floor(clientHeight * pixelRatio);
\* when one of them differed before, both are assigned and the viewport is
\* set once, to (0, 0, displayWidth, displayHeight).  A canvas of 800x600
\* with client size 800x600 and ratio 2 becomes 1600x1200 with one
\* viewport call.
C19_ResizeToDisplaySize ==
  /\ lastOp.name = "renderFrame_" =>
       /\ canvasWidth = DisplaySize(lastOp.resize[1].clientWidth,
                                    lastOp.resize[1].ratioHalves)
       /\ canvasHeight = DisplaySize(lastOp.resize[1].clientHeight,
                                     lastOp.resize[1].ratioHalves)
       /\ (lastOp.resize[1].width # canvasWidth
             \/ lastOp.resize[1].height # canvasHeight) =>
            /\ lastOp.resize[1].assigned = <<"width", "height">>
            /\ lastOp.viewportCalls = 1
            /\ viewport = <<0, 0, canvasWidth, canvasHeight>>
  /\ resize_(800, 600, 4, 800, 600, <<0, 0, 800, 600>>)
       = [width |-> 1600, height |-> 1200,
          viewport |-> <<0, 0, 1600, 1200>>, viewportCalls |-> 1,
          assigned |-> <<"width", "height">>]

\* C19, its case: a frame found the canvas in another size than the
\* display size, the ratio being 1.5 and the product not an integer.
C19_Witness ==
  /\ lastOp.name = "renderFrame_"
  /\ lastOp.resize[1].ratioHalves = 3
  /\ lastOp.resize[1].clientWidth % 2 = 1
  /\ lastOp.resize[1].width # canvasWidth
  /\ lastOp.viewportCalls = 1

\* C20: when the backing size of the canvas is already the display size,
\* resize_ assigns neither dimension and does not call viewport: size and
\* viewport are what they were, as on a second call with the same client
\* size and pixel ratio.
C20_ResizeIdempotent ==
  /\ (/\ lastOp.name = "renderFrame_"
      /\ lastOp.resize[1].width
           = DisplaySize(lastOp.resize[1].clientWidth,
                         lastOp.resize[1].ratioHalves)
      /\ lastOp.resize[1].height
           = DisplaySize(lastOp.resize[1].clientHeight,
                         lastOp.resize[1].ratioHalves)) =>
       /\ lastOp.resize[1].assigned = <<>>
       /\ lastOp.viewportCalls = 0
       /\ canvasWidth = lastOp.resize[1].width
       /\ canvasHeight = lastOp.resize[1].height
       /\ viewport = lastOp.resize[1].viewport
  /\ resize_(800, 600, 4, 1600, 1200, <<0, 0, 1600, 1200>>)
       = [width |-> 1600, height |-> 1200,
          viewport |-> <<0, 0, 1600, 1200>>, viewportCalls |-> 0,
          assigned |-> <<>>]

\* C20, its case: a frame found the canvas in the display size that an
\* earlier frame had given it.
C20_Witness ==
  /\ lastOp.name = "renderFrame_"
  /\ lastOp.resize[1].width
       = DisplaySize(lastOp.resize[1].clientWidth,
                     lastOp.resize[1].ratioHalves)
  /\ lastOp.resize[1].height
       = DisplaySize(lastOp.resize[1].clientHeight,
                     lastOp.resize[1].ratioHalves)
  /\ canvasWidth # CanvasDefaultWidth
  /\ lastOp.viewportCalls = 0

\* C21: a frame callback resizes, then draws, then requests exactly one
\* next frame and stores its handle in renderingLoopId_; after
\* startRendering and after every frame a callback is pending and can run,
\* so the loop does not stop by itself.
C21_FrameOrderAndReschedule ==
  /\ lastOp.name = "renderFrame_" =>
       /\ lastOp.steps
            = <<"resize_", "drawMountains_", "requestAnimationFrame_">>
       /\ Len(lastOp.resize) = 1
       /\ lastOp.draws # <<>>
       /\ Len(lastOp.requested) = 1
       /\ lastOp.requested[1] \notin lastOp.pending
       /\ renderingLoopId_ = lastOp.requested[1]
       /\ callbacks = {lastOp.requested[1]}
  /\ lastOp.name \in {"startRendering", "renderFrame_"} =>
       /\ callbacks # {}
       /\ nextHandle <= MaxHandle => ENABLED RenderFrame

\* C21, its case: a frame has run after another frame, and the next one is
\* pending.
C21_Witness ==
  /\ lastOp.name = "renderFrame_"
  /\ lastOp.resize[1].width # CanvasDefaultWidth
  /\ callbacks = {renderingLoopId_}
  /\ lastOp.lifecycle = "Active"

\* C22: a loss notification that finds renderingLoopId_ at 0 makes no
\* cancel call and leaves the renderer's fields and the pending callbacks
\* as they were; a second loss notification right after a first changes
\* nothing at all and cancels no callback that is pending.
C22_CancelIdempotent ==
  [][ (/\ lastOp'.name = "webglcontextlost"
       /\ renderingLoopId_ = 0 \/ lastOp.name = "webglcontextlost") =>
        /\ UNCHANGED <<phase, renderingLoopId_, programs_, gl_,
                       gridVertices_, gridIndices_, callbacks, nextHandle,
                       canvasWidth, canvasHeight, viewport, dimension>>
        /\ renderingLoopId_ = 0 => lastOp'.cancelled = <<>>
        /\ lastOp.name = "webglcontextlost" =>
             /\ UNCHANGED <<lifecycle, contextLost, store>>
             /\ \A k \in 1..Len(lastOp'.cancelled) :
                  lastOp'.cancelled[k] \notin callbacks ]_vars

\* C22, its case: a second loss notification came right after a first,
\* which had cancelled the pending callback.
C22_Witness ==
  /\ lastOp.name = "webglcontextlost"
  /\ lastOp.after = "webglcontextlost"
  /\ lastOp.cancelled # <<>>
  /\ lastOp.pending = {}
  /\ callbacks = {}

\* The type tag of the script that the look-up in position n of a log
\* found, in the environment env.
TagAt(env, log, n) == env.scripts[SHADER_IDS_[log[n].a]]

\* C23: the stage of a shader is taken from the type tag of its script
\* alone: 'x-shader/x-vertex' makes a vertex shader and
\* 'x-shader/x-fragment' a fragment shader; with any other tag, or no
\* script, the call throws, no shader is created for that script and
\* the shaders created before it are deleted.
C23_StageFromTypeTag ==
  lastOp.name = "Renderer" =>
    \A n \in 1..Len(lastOp.log) :
      lastOp.log[n].op = "getElementById" =>
        IF TagAt(lastOp.env[1], lastOp.log, n) = "x-shader/x-vertex"
        THEN /\ n < Len(lastOp.log)
             /\ lastOp.log[n + 1].op = "createShader"
             /\ lastOp.log[n + 1].b = VERTEX_SHADER
        ELSE IF TagAt(lastOp.env[1], lastOp.log, n) = "x-shader/x-fragment"
        THEN /\ n < Len(lastOp.log)
             /\ lastOp.log[n + 1].op = "createShader"
             /\ lastOp.log[n + 1].b = FRAGMENT_SHADER
        ELSE /\ lastOp.threw
             /\ SHADER_IDS_[lastOp.log[n].a] \in Range(lastOp.message)
             /\ \A k \in (n + 1)..Len(lastOp.log) :
                  lastOp.log[k].op = "deleteShader"
             /\ GlRun(EmptyStore, lastOp.log).shaders = {}
             /\ ~gl_

\* C23, its case: the first script made a shader and the second carries a
\* tag that names no stage; the first shader was deleted again.
C23_Witness ==
  /\ lastOp.name = "Renderer"
  /\ lastOp.threw
  /\ lastOp.env[1].scripts[SHADER_IDS_[2]] = "text/javascript"
  /\ CountOp(lastOp.log, "createShader") = 1
  /\ CountOp(lastOp.log, "deleteShader") = 1
  /\ CountOp(lastOp.log, "getElementById") = 2

\* C24: the mesh is generated once and then kept: a call of startRendering
\* that finds the mesh generated, no restore having happened since, does
\* not run the generators again, and a frame callback runs no generator.
C24_MeshGeneratedOnce ==
  /\ (lastOp.name = "startRendering" /\ lastOp.populated) =>
       lastOp.generated = <<>>
  /\ lastOp.name = "renderFrame_" => lastOp.generated = <<>>

\* The index the strip of line i holds in position k (from 0).
StripIndex(d, i, k) ==
  (IF k % 2 = 0 THEN i ELSE i + 1) * (d + 1) + (k \div 2)

\* The entries of the index buffer a draw call reads, numbered from 1:
\* UNSIGNED_SHORT takes two bytes.
DrawRange(draw) ==
  ((draw.offset \div 2) + 1)..((draw.offset \div 2) + draw.count)

\* C25: drawMountains_ makes D draw calls, call i with the byte offset
\* i*(2D+2)*2 and the count 2D+2; the ranges of indices they read lie
\* inside the index buffer, are pairwise disjoint, cover every entry once
\* and range i is the strip that generateGridIndices_ wrote for line i.
C25_DrawRangesAreStrips ==
  lastOp.name = "drawMountains_" =>
    /\ Len(lastOp.draws) = dimension
    /\ dimension * (2 * dimension + 2) = Len(gridIndices_)
    /\ \A i \in 0..(dimension - 1) :
         /\ lastOp.draws[i + 1].offset = i * (2 * dimension + 2) * 2
         /\ lastOp.draws[i + 1].count = 2 * dimension + 2
         /\ DrawRange(lastOp.draws[i + 1]) \subseteq 1..Len(gridIndices_)
         /\ i > 0 =>
              DrawRange(lastOp.draws[i]) \cap DrawRange(lastOp.draws[i + 1])
                = {}
         /\ i > 0 =>
              (lastOp.draws[i].offset \div 2) + lastOp.draws[i].count
                = lastOp.draws[i + 1].offset \div 2
         /\ \A k \in 0..(2 * dimension + 1) :
              /\ generateGridIndicesWrites(dimension)
                   [(lastOp.draws[i + 1].offset \div 2) + k + 1]
                   = StripIndex(dimension, i, k)
              /\ Indexable(dimension) =>
                   gridIndices_[(lastOp.draws[i + 1].offset \div 2) + k + 1]
                     = StripIndex(dimension, i, k)
    /\ dimension <= MaxDimension =>
         \A n \in 1..Len(gridIndices_) :
           Cardinality({ i \in 1..dimension :
                           n \in DrawRange(lastOp.draws[i]) }) = 1

\* C25, its case: the draw calls for a mesh of more than one line.
C25_Witness ==
  /\ lastOp.name = "drawMountains_"
  /\ dimension = 3
  /\ Len(lastOp.draws) = 3
  /\ lastOp.draws[3].offset = 32
  /\ gridIndices_[17] = 8

\* The index in position k (from 0) of the strip of line i, and the
\* coordinates, grid row and grid column of the vertex with number v.
Corner(i, k) == gridIndices_[i * (2 * dimension + 2) + k + 1]
VertexX(v) == gridVertices_[2 * v + 1]
VertexY(v) == gridVertices_[2 * v + 2]
VertexRow(v) == v \div (dimension + 1)
VertexColumn(v) == v % (dimension + 1)

\* Twice the signed area of the triangle of the vertices a, b, c.
Cross(a, b, c) ==
  (VertexX(b) - VertexX(a)) * (VertexY(c) - VertexY(a))
    - (VertexX(c) - VertexX(a)) * (VertexY(b) - VertexY(a))

\* C26: in every strip that generateGridIndices_ writes, any three
\* consecutive indices are pairwise different and name three vertices that
\* are not collinear: they lie in the grid rows i and i + 1, both rows
\* being used, and in two adjacent columns.  A strip of 2D+2 indices has 2D
\* such triangles.  (Checked for the dimensions up to MaxDimension.)
C26_StripsDegenerateFree ==
  (/\ dimension <= MaxDimension
   /\ gridVertices_ # <<>>
   /\ gridIndices_ # <<>>) =>
    \A i \in 0..(dimension - 1) :
      /\ Cardinality(0..((2 * dimension + 2) - 3)) = 2 * dimension
      /\ \A k \in 0..((2 * dimension + 2) - 3) :
           /\ Cardinality({Corner(i, k), Corner(i, k + 1), Corner(i, k + 2)})
                = 3
           /\ Cross(Corner(i, k), Corner(i, k + 1), Corner(i, k + 2)) # 0
           /\ {VertexRow(Corner(i, k)), VertexRow(Corner(i, k + 1)),
               VertexRow(Corner(i, k + 2))} = {i, i + 1}
           /\ {VertexColumn(Corner(i, k)), VertexColumn(Corner(i, k + 1)),
               VertexColumn(Corner(i, k + 2))} = {k \div 2, (k \div 2) + 1}

\* C26, its case: vertices and indices were generated for a grid of
\* several lines and columns.
C26_Witness ==
  /\ dimension = 4
  /\ gridVertices_ # <<>>
  /\ gridIndices_ # <<>>
  /\ Corner(3, 0) = 15
  /\ Cross(Corner(3, 0), Corner(3, 1), Corner(3, 2)) # 0

\* C27: whenever a frame callback is pending or has just run, the mesh is
\* generated: gridVertices_ has 2*(D+1)^2 components and gridIndices_ has
\* D*(2D+2) entries, D being GRID_DIMENSION_; a frame never finds the empty
\* arrays of the constructor.
C27_MeshPopulatedAtFrame ==
  /\ (callbacks # {} \/ lastOp.name = "renderFrame_") =>
       /\ Len(gridVertices_)
            = 2 * (GRID_DIMENSION_ + 1) * (GRID_DIMENSION_ + 1)
       /\ Len(gridIndices_) = GRID_DIMENSION_ * (2 * GRID_DIMENSION_ + 2)
       /\ gridVertices_ = generateGrid_
       /\ gridIndices_ = generateGridIndices_
  /\ lastOp.name = "renderFrame_" => lastOp.populated

\* C27, its case: the first frame after startRendering has run.
C27_Witness ==
  /\ lastOp.name = "renderFrame_"
  /\ lastOp.populated
  /\ lastOp.resize[1].width = CanvasDefaultWidth
  /\ Len(gridVertices_) = 882
  /\ Len(gridIndices_) = 840

\* The unit vector number c, and the vector the array of
\* generateBarycentric holds for the vertex with number v.
UnitVector(c) == [k \in 1..3 |-> IF k = c + 1 THEN 1 ELSE 0]
BarycentricAt(v) ==
  <<lastOp.barycentric[3 * v + 1], lastOp.barycentric[3 * v + 2],
    lastOp.barycentric[3 * v + 3]>>

\* The shift of the rows in the claim: f = 0, 2, 1 for i mod 3 = 0, 1, 2.
RowShift(i) == <<0, 2, 1>>[(i % 3) + 1]

\* C28: generateBarycentric writes each of the 3*(D+1)^2 slots once and
\* gives the vertex in row i, column j the unit vector number
\* (f(i) + j) mod 3; the three corners of every triangle of every strip
\* carry three different unit vectors.  (Checked for the dimensions up to
\* MaxDimension.)
C28_BarycentricPerTriangle ==
  (lastOp.name = "drawMountains_" /\ dimension <= MaxDimension) =>
    /\ Len(lastOp.barycentric) = 3 * (dimension + 1) * (dimension + 1)
    /\ Len(generateBarycentricWrites(dimension))
         = 3 * (dimension + 1) * (dimension + 1)
    /\ \A n \in 1..Len(lastOp.barycentric) :
         generateBarycentricWrites(dimension)[n].idx = n - 1
    /\ \A i \in 0..dimension, j \in 0..dimension :
         BarycentricAt(i * (dimension + 1) + j)
           = UnitVector((RowShift(i) + j) % 3)
    /\ \A i \in 0..(dimension - 1), k \in 0..((2 * dimension + 2) - 3) :
         Cardinality({BarycentricAt(Corner(i, k)),
                      BarycentricAt(Corner(i, k + 1)),
                      BarycentricAt(Corner(i, k + 2))}) = 3

\* C28, its case: the array for a grid with more than three rows and
\* columns; the vertex in row 1, column 0 has the third unit vector.
C28_Witness ==
  /\ lastOp.name = "drawMountains_"
  /\ dimension = 4
  /\ Len(lastOp.barycentric) = 75
  /\ BarycentricAt(5) = <<0, 0, 1>>

\* The positions in the log of the last operation where the object a is
\* created by the call create, and where it is deleted by the call delete.
CreatedAt(create, a) ==
  { k \in 1..Len(lastOp.log) :
      lastOp.log[k].op = create /\ lastOp.log[k].a = a }
DeletedAt(delete, a) ==
  { k \in 1..Len(lastOp.log) :
      lastOp.log[k].op = delete /\ lastOp.log[k].a = a }

\* Every call of delete in the log of the last operation names an object
\* that create made earlier in the log, and names it only once; an object
\* whose own check failed (the call check answered 0 on a context that
\* is not lost) is deleted by the very next call.
DeletedOnce(create, check, delete) ==
  \A k \in 1..Len(lastOp.log) :
    /\ lastOp.log[k].op = delete =>
         /\ \E c \in CreatedAt(create, lastOp.log[k].a) : c < k
         /\ DeletedAt(delete, lastOp.log[k].a) = {k}
    /\ (lastOp.log[k].op = check /\ lastOp.log[k].b = 0
        /\ ~lastOp.env[1].lost) =>
         /\ k < Len(lastOp.log)
         /\ lastOp.log[k + 1] = Call(delete, lastOp.log[k].a, 0)

\* C29: during a failed setUpWebGL_ no shader and no program is deleted
\* twice and none is deleted that was never created; the shader or program
\* whose own compilation or linking failed is deleted once, inside its
\* creation routine; when the extension is unavailable no shader is deleted.
C29_NoDoubleDelete ==
  (lastOp.name \in SetUpOps /\ lastOp.threw) =>
    /\ DeletedOnce("createShader", "compileShader", "deleteShader")
    /\ DeletedOnce("createProgram", "linkProgram", "deleteProgram")
    /\ (lastOp.log # <<>> /\ ~lastOp.env[1].ext) =>
         CountOp(lastOp.log, "deleteShader") = 0

\* C29, its case: the second shader fails to compile after the first one
\* was stored; both are deleted, one by the routine, one by the rollback.
C29_Witness ==
  /\ lastOp.name = "Renderer"
  /\ lastOp.threw
  /\ ~lastOp.env[1].lost
  /\ CountOp(lastOp.log, "createShader") = 2
  /\ CountOp(lastOp.log, "createProgram") = 0
  /\ DeletedAt("deleteShader", 1) # {}
  /\ DeletedAt("deleteShader", 2) # {}

\* C30: every id held in a constant of the code (the canvas, the two shader
\* scripts, the three sliders) is, letter by letter, the id of an element of
\* index.html: no lookup with one of them raises the error of the element
\* that is not found.
C30_ConfiguredIdsExist ==
  lastOp.name = "getElement_" =>
    /\ lastOp.id \in IndexHtmlIds
    /\ ~lastOp.threw

=============================================================================
